---- MODULE Spec2Model ----
(***************************************************************************)
(* ServerGuard: the asset-directory API of server.js (list, upload,        *)
(* rename, delete) over a POSIX filesystem.                                *)
(*                                                                         *)
(* A file name is a sequence of one-character strings.  A path is an       *)
(* absolute sequence of segments.  Each handler is split where the source  *)
(* hands work to an asynchronous fs call: the synchronous part of the      *)
(* handler is one action, the fs operation together with its completion    *)
(* callback is another.                                                    *)
(***************************************************************************)
EXTENDS Integers, Sequences, FiniteSets, TLC

VARIABLES
    dirExists,   \* does <__dirname>/public exist
    files,       \* the filesystem: path |-> content (sequence of bytes)
    reqs,        \* the requests issued so far, by issue number
    assets,      \* the browser: useState<HostedAsset[]>
    fetched,     \* the browser: how the fetch() call of a request ended
    browser,     \* is a browser part of the system, or the server alone
    mounted,     \* App: is the component mounted
    status,      \* App: useState<AppStatus>
    intervals,   \* App: the ids of the registered interval timers
    keepAliveIntervalRef,  \* App: the id the ref holds, 0 for null
    timeouts,    \* App: pending setTimeout(pingServer) timers
    effectDue,   \* App: a dependency of the initial-load effect has changed
    calls,       \* App: the fetch() calls to the API, in the order made
    isUploading, \* App: useState(false)
    pings,       \* App: runs of pingServer so far
    logs,        \* App: useState<SystemLog[]>
    logCalls,    \* calls of addLog made from outside the handlers
    card,        \* AssetCard: its props and state, or NoCard
    renames      \* AssetCard: the calls of onRename, in the order made

\* the state of App besides assets and logs
app == <<mounted, status, intervals, keepAliveIntervalRef, timeouts, effectDue,
         calls, isUploading, pings>>

logvars == <<logs, logCalls>>

cardvars == <<card, renames>>

\* the state of the browser
ui == <<assets, fetched, browser, app, logvars, cardvars>>

vars == <<dirExists, files, reqs, ui>>

----------------------------------------------------------------------------
(* Bounds *)

MaxReqs == 2        \* requests issued in one behaviour
MaxInFlight == 2    \* requests being handled at the same time
MaxReqsUI == 3      \* requests issued in one behaviour with a browser

----------------------------------------------------------------------------
(* Names, paths and payloads used as inputs *)

SLASH == "/"
BACKSLASH == "\\"
DOT == "."

\* "a.png"
N_apng == <<"a", ".", "p", "n", "g">>
\* "b.JPG"
N_bJPG == <<"b", ".", "J", "P", "G">>
\* "a.png.txt": a valid name that is no image
N_txt == <<"a", ".", "p", "n", "g", ".", "t", "x", "t">>
\* "a..png": holds the parent-directory token, no separator
N_dotdot == <<"a", ".", ".", "p", "n", "g">>
\* "x/a.png"
N_slash == <<"x", "/", "a", ".", "p", "n", "g">>
\* "c\d.gif"
N_bslash == <<"c", "\\", "d", ".", "g", "i", "f">>
\* "../server.js": the server's own file, one level above the store
N_up == <<".", ".", "/", "s", "e", "r", "v", "e", "r", ".", "j", "s">>
\* "server.js"
N_serverjs == <<"s", "e", "r", "v", "e", "r", ".", "j", "s">>
\* the bytes C3 A9 followed by ".png": UTF-8 of "e-acute" read as latin1
N_utf == <<"xC3", "xA9", ".", "p", "n", "g">>
\* the byte E9 followed by ".png": latin1 "e-acute", no valid UTF-8
N_latin == <<"xE9", ".", "p", "n", "g">>
\* a missing or empty name
N_empty == <<>>

\* __dirname and path.join(__dirname, 'public')
AppDir == << <<"a", "p", "p">> >>
publicDir == AppDir \o << <<"p", "u", "b", "l", "i", "c">> >>

Payloads == { <<3>>, <<4, 4>> }

\* limits.fileSize, 10 * 1024 * 1024 bytes, counted in blocks of 5 MiB: one
\* element of a payload stands for one block
fileSize == 2

\* a payload over the limit
BigPayload == <<6, 6, 6>>

UploadNames == {N_apng, N_dotdot, N_up, N_utf, N_latin}
RenameOldNames == {N_apng, N_bJPG, N_up, N_empty}
RenameNewNames == {N_apng, N_bJPG, N_txt, N_dotdot, N_slash, N_bslash, N_empty}
DeleteNames == {N_apng, N_bJPG, N_up}

----------------------------------------------------------------------------
(* String helpers *)

\* String.prototype.includes
Includes(s, sub) ==
    \E i \in 1..(Len(s) - Len(sub) + 1) : SubSeq(s, i, i + Len(sub) - 1) = sub

UpperChars == <<"A","B","C","D","E","F","G","H","I","J","K","L","M",
                "N","O","P","Q","R","S","T","U","V","W","X","Y","Z">>
LowerChars == <<"a","b","c","d","e","f","g","h","i","j","k","l","m",
                "n","o","p","q","r","s","t","u","v","w","x","y","z">>

LowerChar(c) ==
    IF \E i \in 1..26 : UpperChars[i] = c
    THEN LowerChars[CHOOSE i \in 1..26 : UpperChars[i] = c]
    ELSE c

ToLower(s) == [i \in 1..Len(s) |-> LowerChar(s[i])]

----------------------------------------------------------------------------
(* Paths: path.join on POSIX *)

RECURSIVE SplitPath(_)
\* split a name at every "/"
SplitPath(s) ==
    IF \E i \in 1..Len(s) : s[i] = SLASH
    THEN LET i == CHOOSE k \in 1..Len(s) :
                     s[k] = SLASH /\ \A j \in 1..(k - 1) : s[j] # SLASH
         IN  <<SubSeq(s, 1, i - 1)>> \o SplitPath(SubSeq(s, i + 1, Len(s)))
    ELSE <<s>>

RECURSIVE NormalizeInto(_, _)
\* path.normalize of an absolute path: drop "" and ".", let ".." pop a segment
NormalizeInto(acc, segs) ==
    IF segs = <<>> THEN acc
    ELSE LET seg == Head(segs)
             rest == Tail(segs)
         IN  IF seg = <<>> \/ seg = <<DOT>> THEN NormalizeInto(acc, rest)
             ELSE IF seg = <<DOT, DOT>>
                  THEN NormalizeInto(IF acc = <<>> THEN acc
                                     ELSE SubSeq(acc, 1, Len(acc) - 1), rest)
                  ELSE NormalizeInto(Append(acc, seg), rest)

\* path.join(dir, name)
PathJoin(dir, name) == NormalizeInto(<<>>, dir \o SplitPath(name))

ParentOf(p) == SubSeq(p, 1, Len(p) - 1)

\* the path names a direct child of the store directory
InStore(p) == Len(p) = Len(publicDir) + 1 /\ ParentOf(p) = publicDir

----------------------------------------------------------------------------
(* The filesystem *)

IsDirIn(de, p) == p = <<>> \/ p = AppDir \/ (p = publicDir /\ de)

IsFileIn(fs, p) == p \in DOMAIN fs

\* fs.existsSync
ExistsIn(de, fs, p) == IsFileIn(fs, p) \/ IsDirIn(de, p)

existsSync(p) == ExistsIn(dirExists, files, p)

FsPut(fs, p, content) ==
    [q \in DOMAIN fs \cup {p} |-> IF q = p THEN content ELSE fs[q]]

\* FsDrop that removes the whole directory of p
FsDropSiblings(fs, p) ==
    [q \in { x \in DOMAIN fs : ParentOf(x) # ParentOf(p) } |-> fs[q]]

\* FsDrop that removes nothing
FsDropNothing(fs, p) == fs

FsDrop(fs, p) == [q \in DOMAIN fs \ {p} |-> fs[q]]

\* rename(2): can the call succeed
CanRename(de, fs, old, new) ==
    /\ IsFileIn(fs, old)
    /\ Len(new) > 0
    /\ IsDirIn(de, ParentOf(new))
    /\ ~IsDirIn(de, new)

\* FsRename as a copy: the old entry stays
FsRenameKeepOld(fs, old, new) == FsPut(fs, new, fs[old])

\* rename(2): the target is replaced if it exists
FsRename(fs, old, new) ==
    IF old = new THEN fs ELSE FsDrop(FsPut(fs, new, fs[old]), old)

\* unlink(2)
CanUnlink(fs, p) == IsFileIn(fs, p)

\* open(2) with O_WRONLY | O_CREAT | O_TRUNC
CanOpenWrite(de, fs, p) ==
    /\ Len(p) > 0
    /\ IsDirIn(de, ParentOf(p))
    /\ ~IsDirIn(de, p)

\* the open without O_TRUNC: an existing file keeps its bytes
FsOpenKeep(fs, p) == IF p \in DOMAIN fs THEN fs ELSE FsPut(fs, p, <<>>)

\* the open itself: the file is created, or cut to length 0
FsOpenTrunc(fs, p) == FsPut(fs, p, <<>>)

\* a write of the whole payload at offset 0 of an open file
WriteAt0(old, payload) ==
    payload \o SubSeq(old, Len(payload) + 1, Len(old))

\* fs.readdir of the store directory
ReaddirNames(fs) == { p[Len(p)] : p \in { q \in DOMAIN fs : InStore(q) } }

\* fs.statSync(path).size, 0 when the stat throws
StatSizeOrZero(fs, p) == IF IsFileIn(fs, p) THEN Len(fs[p]) ELSE 0

----------------------------------------------------------------------------
(* List: the image filter and the entry of one file *)

ImageExts == { <<"p","n","g">>, <<"j","p","g">>, <<"j","p","e","g">>,
               <<"g","i","f">>, <<"w","e","b","p">> }

\* the pattern without its "$" anchor
IsImageFileUnanchored(file) ==
    \E ext \in ImageExts :
        \E k \in 1..(Len(file) - Len(ext)) :
            ToLower(SubSeq(file, k, k + Len(ext))) = <<DOT>> \o ext

\* /\.(png|jpe?g|gif|webp)$/i.test(file)
IsImageFile(file) ==
    \E ext \in ImageExts :
        /\ Len(file) >= Len(ext) + 1
        /\ ToLower(SubSeq(file, Len(file) - Len(ext), Len(file))) = <<DOT>> \o ext

\* FileInfo whose url is the bare name
FileInfoBareUrl(fs, file) ==
    [name |-> file,
     url  |-> file,
     size |-> StatSizeOrZero(fs, PathJoin(publicDir, file))]

\* { name: file, url: `/${file}`, size: size }
FileInfo(fs, file) ==
    [name |-> file,
     url  |-> <<SLASH>> \o file,
     size |-> StatSizeOrZero(fs, PathJoin(publicDir, file))]

\* files.filter(...).map(...)
FileInfos(fs, names) == { FileInfo(fs, f) : f \in { g \in names : IsImageFile(g) } }

----------------------------------------------------------------------------
(* Upload: the file name the client supplied *)

\* busboy keeps the part after the last "/" or "\" of the supplied filename
Basename(s) ==
    LET seps == { i \in 1..Len(s) : s[i] = SLASH \/ s[i] = BACKSLASH }
        cut  == IF seps = {} THEN 0
                ELSE CHOOSE i \in seps : \A j \in seps : j <= i
        base == SubSeq(s, cut + 1, Len(s))
    IN  IF base = <<DOT, DOT>> \/ base = <<DOT>> THEN <<>> ELSE base

IsAsciiByte(c) == c \notin {"xC3", "xA9", "xE9"}

RECURSIVE Latin1ToUtf8(_)
\* Buffer.from(s, 'latin1').toString('utf8'): every character is one byte;
\* C3 A9 decodes to U+00E9, a byte that is no valid UTF-8 becomes U+FFFD
Latin1ToUtf8(s) ==
    IF s = <<>> THEN <<>>
    ELSE IF IsAsciiByte(s[1]) THEN <<s[1]>> \o Latin1ToUtf8(Tail(s))
    ELSE IF Len(s) >= 2 /\ s[1] = "xC3" /\ s[2] = "xA9"
         THEN <<"U+00E9">> \o Latin1ToUtf8(SubSeq(s, 3, Len(s)))
    ELSE <<"U+FFFD">> \o Latin1ToUtf8(Tail(s))

\* diskStorage.filename applied to file.originalname
StoredFilename(supplied) == Latin1ToUtf8(Basename(supplied))

----------------------------------------------------------------------------
(* Rename: the traversal rule *)

\* InvalidFilename without the backslash test
InvalidFilenameNoBackslash(newName) ==
    \/ Includes(newName, <<DOT, DOT>>)
    \/ Includes(newName, <<SLASH>>)

\* newName.includes('..') || newName.includes('/') || newName.includes('\\')
InvalidFilename(newName) ==
    \/ Includes(newName, <<DOT, DOT>>)
    \/ Includes(newName, <<SLASH>>)
    \/ Includes(newName, <<BACKSLASH>>)

----------------------------------------------------------------------------
(* Requests *)

\* the requests that have not been answered yet
InFlight == { i \in DOMAIN reqs : reqs[i].pc # "done" }

\* the requests one behaviour may issue
ReqBound == IF browser THEN MaxReqsUI ELSE MaxReqs

CanIssue(lim) == Len(reqs) < ReqBound /\ Cardinality(InFlight) < lim

\* a request as it arrives; conc is the set of requests in flight at that time
NewReq(kind, a, b, payload) ==
    [kind |-> kind, a |-> a, b |-> b, payload |-> payload,
     pc |-> "done", status |-> 0,
     list |-> {}, name |-> <<>>, url |-> <<>>,
     snap |-> {}, err |-> FALSE,
     fd |-> <<>>, linked |-> FALSE,
     body |-> "",
     conc |-> InFlight]

\* res.status(code).send(...) with no body the model keeps
Answer(r, code) == [r EXCEPT !.pc = "done", !.status = code]

\* the open write streams follow their file when it is renamed, and lose
\* their directory entry when it is replaced
Relinked(rs, old, new) ==
    [j \in DOMAIN rs |->
        IF rs[j].pc = "write" /\ rs[j].linked /\ old # new
        THEN IF rs[j].fd = old THEN [rs[j] EXCEPT !.fd = new]
             ELSE IF rs[j].fd = new THEN [rs[j] EXCEPT !.linked = FALSE]
             ELSE rs[j]
        ELSE rs[j]]

\* ... and when it is unlinked
Unlinked(rs, p) ==
    [j \in DOMAIN rs |->
        IF rs[j].pc = "write" /\ rs[j].linked /\ rs[j].fd = p
        THEN [rs[j] EXCEPT !.linked = FALSE]
        ELSE rs[j]]

----------------------------------------------------------------------------
(* Initial states *)

ServerJsPath == AppDir \o <<N_serverjs>>

OutsideFiles == [p \in {ServerJsPath} |-> <<9>>]

StoreOf(contentOf) ==
    [p \in {ServerJsPath} \cup { PathJoin(publicDir, n) : n \in DOMAIN contentOf } |->
        IF p = ServerJsPath THEN <<9>>
        ELSE contentOf[CHOOSE n \in DOMAIN contentOf : PathJoin(publicDir, n) = p]]

InitStores ==
    { [n \in {} |-> <<>>],
      [n \in {N_apng, N_bJPG} |-> IF n = N_apng THEN <<1>> ELSE <<2, 2>>],
      [n \in {N_apng, N_txt} |-> IF n = N_apng THEN <<1, 1>> ELSE <<5>>] }

\* no fetchAssets call has ended
NoneFetched == [i \in {} |-> "ok"]

\* no AssetCard is rendered
NoCard == [present |-> FALSE]

\* App before it is mounted
IdleApp ==
    /\ mounted = FALSE
    /\ status = "STOPPED"
    /\ intervals = {}
    /\ keepAliveIntervalRef = 0
    /\ timeouts = 0
    /\ effectDue = FALSE
    /\ calls = <<>>
    /\ isUploading = FALSE
    /\ pings = 0
    /\ logs = <<>>
    /\ logCalls = 0

IdleCard == card = NoCard /\ renames = <<>>

Init ==
    /\ reqs = <<>>
    /\ assets = <<>>
    /\ fetched = NoneFetched
    /\ browser = FALSE
    /\ IdleApp
    /\ IdleCard
    /\ \/ dirExists = FALSE /\ files = OutsideFiles
       \/ dirExists = TRUE /\ \E st \in InitStores : files = StoreOf(st)

----------------------------------------------------------------------------
(* GET /api/assets *)

ListCall(lim) ==
    /\ CanIssue(lim)
    /\ LET r == NewReq("list", <<>>, <<>>, <<>>)
       IN  IF ~existsSync(publicDir)
           THEN reqs' = Append(reqs, [Answer(r, 200) EXCEPT !.list = {}])
           ELSE reqs' = Append(reqs, [r EXCEPT !.pc = "readdir"])
    /\ UNCHANGED <<dirExists, files, ui>>

\* fs.readdir runs; it may fail
ReaddirExec(i) ==
    /\ reqs[i].pc = "readdir"
    /\ \E fail \in BOOLEAN :
          reqs' = [reqs EXCEPT ![i].pc = "callback",
                               ![i].err = fail,
                               ![i].snap = IF fail THEN {} ELSE ReaddirNames(files)]
    /\ UNCHANGED <<dirExists, files, ui>>

\* ListCallback with no try/catch around statSync
ListCallbackFailOnStat(i) ==
    /\ reqs[i].pc = "callback"
    /\ reqs' = [reqs EXCEPT ![i] =
                  IF reqs[i].err
                     \/ \E f \in reqs[i].snap :
                           IsImageFile(f) /\ ~IsFileIn(files, PathJoin(publicDir, f))
                  THEN Answer(reqs[i], 500)
                  ELSE [Answer(reqs[i], 200) EXCEPT
                           !.list = FileInfos(files, reqs[i].snap)]]
    /\ UNCHANGED <<dirExists, files, ui>>

\* ListCallback that shows a failed readdir as an empty store
ListCallbackEmptyOnError(i) ==
    /\ reqs[i].pc = "callback"
    /\ reqs' = [reqs EXCEPT ![i] =
                  [Answer(reqs[i], 200) EXCEPT
                      !.list = FileInfos(files, reqs[i].snap)]]
    /\ UNCHANGED <<dirExists, files, ui>>

\* the readdir callback
ListCallback(i) ==
    /\ reqs[i].pc = "callback"
    /\ reqs' = [reqs EXCEPT ![i] =
                  IF reqs[i].err
                  THEN Answer(reqs[i], 500)
                  ELSE [Answer(reqs[i], 200) EXCEPT
                           !.list = FileInfos(files, reqs[i].snap)]]
    /\ UNCHANGED <<dirExists, files, ui>>

----------------------------------------------------------------------------
(* POST /api/upload, POST /api/v2/upload *)

NoFile == [present |-> FALSE, originalname |-> <<>>, bytes |-> <<>>]

UploadParts ==
    {NoFile} \cup
    { [present |-> TRUE, originalname |-> n, bytes |-> <<3>>] : n \in UploadNames } \cup
    { [present |-> TRUE, originalname |-> N_apng, bytes |-> b] :
          b \in Payloads \cup {BigPayload} }

\* multer: destination, filename, open of the write stream
UploadCall(lim, part) ==
    /\ CanIssue(lim)
    /\ UNCHANGED ui
    /\ LET r == NewReq("upload", part.originalname, <<>>, part.bytes)
           filename == StoredFilename(part.originalname)
           finalPath == PathJoin(publicDir, filename)
       IN  IF ~part.present
           THEN /\ reqs' = Append(reqs, Answer(r, 400))
                /\ UNCHANGED <<dirExists, files>>
           ELSE /\ dirExists' = TRUE
                /\ IF CanOpenWrite(TRUE, files, finalPath)
                   THEN /\ files' = FsOpenTrunc(files, finalPath)
                        /\ reqs' = Append(reqs, [r EXCEPT !.pc = "write",
                                                          !.name = filename,
                                                          !.fd = finalPath,
                                                          !.linked = TRUE])
                   ELSE /\ files' = files
                        /\ reqs' = Append(reqs, Answer(r, 500))

\* the bytes the write stream has written when it ends: the whole payload,
\* or the part below limits.fileSize
Written(fs, r) ==
    IF r.linked
    THEN FsPut(fs, r.fd,
               WriteAt0(fs[r.fd],
                        IF Len(r.payload) > fileSize
                        THEN SubSeq(r.payload, 1, fileSize)
                        ELSE r.payload))
    ELSE fs

\* the write stream ends and the handler answers; past limits.fileSize
\* multer unlinks the file it stored and passes a MulterError
UploadFinish(i) ==
    /\ reqs[i].pc = "write"
    /\ LET written == Written(files, reqs[i])
           path == PathJoin(publicDir, reqs[i].name)
       IN  IF Len(reqs[i].payload) > fileSize
           THEN /\ files' = IF CanUnlink(written, path) THEN FsDrop(written, path)
                            ELSE written
                /\ reqs' = [Unlinked(reqs, path) EXCEPT ![i] = Answer(reqs[i], 500)]
           ELSE /\ files' = written
                /\ reqs' = [reqs EXCEPT ![i] =
                              [Answer(reqs[i], 200) EXCEPT
                                  !.url = <<SLASH>> \o reqs[i].name]]
    /\ UNCHANGED <<dirExists, ui>>

----------------------------------------------------------------------------
(* PUT /api/rename *)

\* RenameCheck that looks for oldName before it validates newName
RenameCheckExistsFirst(de, fs, oldName, newName) ==
    IF oldName = <<>> \/ newName = <<>> THEN 400
    ELSE IF ~ExistsIn(de, fs, PathJoin(publicDir, oldName)) THEN 404
    ELSE IF InvalidFilename(newName) THEN 400
    ELSE IF ExistsIn(de, fs, PathJoin(publicDir, newName)) THEN 409
    ELSE 0

\* the status the synchronous part of the handler answers with, 0 when it
\* goes on to fs.rename
RenameCheck(de, fs, oldName, newName) ==
    IF oldName = <<>> \/ newName = <<>> THEN 400
    ELSE IF InvalidFilename(newName) THEN 400
    ELSE IF ~ExistsIn(de, fs, PathJoin(publicDir, oldName)) THEN 404
    ELSE IF ExistsIn(de, fs, PathJoin(publicDir, newName)) THEN 409
    ELSE 0

\* RenameCall that moves the file before it looks at the target
RenameCallMoveFirst(lim, oldName, newName) ==
    /\ CanIssue(lim)
    /\ LET r == NewReq("rename", oldName, newName, <<>>)
           code == RenameCheck(dirExists, files, oldName, newName)
       IN  /\ reqs' = Append(reqs, IF code = 0 THEN [r EXCEPT !.pc = "rename"]
                                   ELSE Answer(r, code))
           /\ files' = IF code = 409 /\ IsFileIn(files, PathJoin(publicDir, oldName))
                       THEN FsRename(files, PathJoin(publicDir, oldName),
                                     PathJoin(publicDir, newName))
                       ELSE files
    /\ UNCHANGED <<dirExists, ui>>

RenameCall(lim, oldName, newName) ==
    /\ CanIssue(lim)
    /\ LET r == NewReq("rename", oldName, newName, <<>>)
           code == RenameCheck(dirExists, files, oldName, newName)
       IN  reqs' = Append(reqs, IF code = 0 THEN [r EXCEPT !.pc = "rename"]
                                ELSE Answer(r, code))
    /\ UNCHANGED <<dirExists, files, ui>>

\* fs.rename runs and its callback answers
RenameExec(i) ==
    /\ reqs[i].pc = "rename"
    /\ LET oldPath == PathJoin(publicDir, reqs[i].a)
           newPath == PathJoin(publicDir, reqs[i].b)
       IN  IF CanRename(dirExists, files, oldPath, newPath)
           THEN /\ files' = FsRename(files, oldPath, newPath)
                /\ reqs' = [Relinked(reqs, oldPath, newPath) EXCEPT ![i] =
                              [Answer(reqs[i], 200) EXCEPT
                                  !.name = reqs[i].b,
                                  !.url = <<SLASH>> \o reqs[i].b]]
           ELSE /\ files' = files
                /\ reqs' = [reqs EXCEPT ![i] = Answer(reqs[i], 500)]
    /\ UNCHANGED <<dirExists, ui>>

----------------------------------------------------------------------------
(* DELETE /api/delete/:filename *)

DeleteCall(lim, filename) ==
    /\ CanIssue(lim)
    /\ LET r == NewReq("delete", filename, <<>>, <<>>)
       IN  reqs' = Append(reqs, IF existsSync(PathJoin(publicDir, filename))
                                THEN [r EXCEPT !.pc = "unlink"]
                                ELSE Answer(r, 404))
    /\ UNCHANGED <<dirExists, files, ui>>

\* fs.unlink runs and its callback answers
DeleteExec(i) ==
    /\ reqs[i].pc = "unlink"
    /\ LET filePath == PathJoin(publicDir, reqs[i].a)
       IN  IF CanUnlink(files, filePath)
           THEN /\ files' = FsDrop(files, filePath)
                /\ reqs' = [Unlinked(reqs, filePath) EXCEPT ![i] = Answer(reqs[i], 200)]
           ELSE /\ files' = files
                /\ reqs' = [reqs EXCEPT ![i] = Answer(reqs[i], 500)]
    /\ UNCHANGED <<dirExists, ui>>

----------------------------------------------------------------------------
(* GET /api/health *)

\* HealthCall that makes the store ready first
HealthCallMkdir(lim) ==
    /\ CanIssue(lim)
    /\ reqs' = Append(reqs, [Answer(NewReq("health", <<>>, <<>>, <<>>), 200)
                                EXCEPT !.body = "ok"])
    /\ dirExists' = TRUE
    /\ UNCHANGED <<files, ui>>

HealthCall(lim) ==
    /\ CanIssue(lim)
    /\ reqs' = Append(reqs, [Answer(NewReq("health", <<>>, <<>>, <<>>), 200)
                                EXCEPT !.body = "ok"])
    /\ UNCHANGED <<dirExists, files, ui>>

----------------------------------------------------------------------------
(* Specifications *)

\* requests are handled concurrently, at most lim at a time
NextUpTo(lim) ==
    \/ ListCall(lim)
    \/ \E i \in DOMAIN reqs : ReaddirExec(i)
    \/ \E i \in DOMAIN reqs : ListCallback(i)
    \/ \E part \in UploadParts : UploadCall(lim, part)
    \/ \E i \in DOMAIN reqs : UploadFinish(i)
    \/ \E o \in RenameOldNames, n \in RenameNewNames : RenameCall(lim, o, n)
    \/ \E i \in DOMAIN reqs : RenameExec(i)
    \/ \E f \in DeleteNames : DeleteCall(lim, f)
    \/ \E i \in DOMAIN reqs : DeleteExec(i)
    \/ HealthCall(lim)

Next == NextUpTo(MaxInFlight)

Spec == Init /\ [][Next]_vars

\* one request at a time: a request arrives after the previous one is answered
NextSeq == NextUpTo(1)

SpecSeq == Init /\ [][NextSeq]_vars

----------------------------------------------------------------------------
(* The browser: App, fetchAssets *)

N_avatar == <<"a", "v", "a", "t", "a", "r", ".", "p", "n", "g">>
N_banner == <<"b", "a", "n", "n", "e", "r", ".", "p", "n", "g">>
N_cover == <<"c", "o", "v", "e", "r", "-", "c", "a", "r", "d", ".", "p", "n", "g">>
N_donate == <<"d", "o", "n", "a", "t", "e", "-", "q", "r", "c", "o", "d", "e", "1",
              ".", "p", "n", "g">>

\* the display names, one token for each character
FILENAME_MAPPING ==
    (N_cover :> <<"U+5E94", "U+7528", "U+5C01", "U+9762">>) @@
    (N_donate :> <<"U+8D5E", "U+8D4F", "U+7801">>) @@
    (N_avatar :> <<"U+7528", "U+6237", "U+5934", "U+50CF">>) @@
    (N_banner :> <<"U+6A2A", "U+5E45", "U+5E7F", "U+544A">>)

\* FILENAME_MAPPING[f.name]: undefined when the table has no such key
Lookup(name) ==
    IF name \in DOMAIN FILENAME_MAPPING THEN FILENAME_MAPPING[name] ELSE <<>>

\* DisplayName that shows the filename, as the older App does
DisplayNameIsFile(name) == name

\* FILENAME_MAPPING[f.name] || f.name: undefined and '' are falsy
DisplayName(name) ==
    IF Lookup(name) # <<>> THEN Lookup(name) ELSE name

DescriptionPrefix == <<"U+5BF9", "U+5E94", "U+6587", "U+4EF6", ":", " ">>

\* the HostedAsset made of one element of the array
MappedAsset(f) ==
    [id           |-> f.name,
     name         |-> DisplayName(f.name),
     originalName |-> f.name,
     description  |-> DescriptionPrefix \o <<SLASH>> \o f.name,
     url          |-> f.url,
     size         |-> f.size]

\* files.map(...)
MappedAssets(arr) == [k \in 1..Len(arr) |-> MappedAsset(arr[k])]

\* the elements of a JSON array in the order they were sent: the order of
\* the directory, which is the same every time the same entries are sent
RECURSIVE ArrayOf(_)
ArrayOf(S) ==
    IF S = {} THEN <<>>
    ELSE LET x == CHOOSE y \in S : TRUE
         IN  <<x>> \o ArrayOf(S \ {x})

\* what fetch() can resolve to for request i: the answer of the server once
\* it is sent, or a text/html page of a proxy in front of it
Responses(i) ==
    (IF reqs[i].pc = "done"
     THEN {[html |-> FALSE, ok |-> reqs[i].status = 200,
            json |-> ArrayOf(reqs[i].list)]}
     ELSE {})
    \cup {[html |-> TRUE, ok |-> okay, json |-> <<>>] : okay \in BOOLEAN}

\* is the fetchAssets call of request i still waiting
Awaiting(i) == reqs[i].kind = "list" /\ i \notin DOMAIN fetched

\* fetchAssets up to its await: fetch('/api/assets?t=...') reaches the handler
FetchAssets(lim) == ListCall(lim)

\* FetchAssetsThen that adds the array to the list it holds
FetchAssetsThenAppend(i) ==
    /\ Awaiting(i)
    /\ \E response \in Responses(i) :
          IF response.html
          THEN /\ fetched' = fetched @@ (i :> "html")
               /\ UNCHANGED assets
          ELSE IF response.ok
          THEN /\ assets' = assets \o MappedAssets(response.json)
               /\ fetched' = fetched @@ (i :> "ok")
          ELSE /\ fetched' = fetched @@ (i :> "notok")
               /\ UNCHANGED assets
    /\ UNCHANGED <<dirExists, files, reqs, browser, app, logvars, cardvars>>

\* fetchAssets after its await, when fetch() resolved
FetchAssetsThen(i) ==
    /\ Awaiting(i)
    /\ \E response \in Responses(i) :
          IF response.html
          THEN /\ fetched' = fetched @@ (i :> "html")
               /\ UNCHANGED assets
          ELSE IF response.ok
          THEN /\ assets' = MappedAssets(response.json)
               /\ fetched' = fetched @@ (i :> "ok")
          ELSE /\ fetched' = fetched @@ (i :> "notok")
               /\ UNCHANGED assets
    /\ UNCHANGED <<dirExists, files, reqs, browser, app, logvars, cardvars>>

\* fetchAssets after its await, when fetch() rejected: the catch block
FetchAssetsCatch(i) ==
    /\ Awaiting(i)
    /\ fetched' = fetched @@ (i :> "error")
    /\ UNCHANGED <<dirExists, files, reqs, assets, browser, app, logvars, cardvars>>

\* the stores the browser is started against
InitStoresUI ==
    { [n \in {} |-> <<>>],
      [n \in {N_apng, N_bJPG} |-> IF n = N_apng THEN <<1>> ELSE <<2, 2>>],
      [n \in {N_avatar, N_apng, N_txt} |->
          IF n = N_avatar THEN <<7, 7>> ELSE IF n = N_apng THEN <<1, 1>> ELSE <<5>>] }

\* the browser shows nothing yet, or the listing of an earlier fetch
InitUI ==
    /\ reqs = <<>>
    /\ fetched = NoneFetched
    /\ browser = TRUE
    /\ IdleApp
    /\ IdleCard
    /\ \/ dirExists = FALSE /\ files = OutsideFiles
       \/ dirExists = TRUE /\ \E st \in InitStoresUI : files = StoreOf(st)
    /\ \/ assets = <<>>
       \/ \E st \in InitStoresUI :
             assets = MappedAssets(ArrayOf(FileInfos(StoreOf(st),
                                                      ReaddirNames(StoreOf(st)))))

\* what the user of this browser uploads and deletes
UserUploads ==
    { part \in UploadParts : part.originalname = N_apng /\ part.bytes = <<3>> }
UserDeletes == {N_apng}

\* the server handles the requests of this browser one at a time; their
\* answers travel back independently of each other
NextUI ==
    \/ FetchAssets(1)
    \/ \E i \in DOMAIN reqs : ReaddirExec(i)
    \/ \E i \in DOMAIN reqs : ListCallback(i)
    \/ \E i \in DOMAIN reqs : FetchAssetsThen(i)
    \/ \E i \in DOMAIN reqs : FetchAssetsCatch(i)
    \/ \E part \in UserUploads : UploadCall(1, part)
    \/ \E i \in DOMAIN reqs : UploadFinish(i)
    \/ \E f \in UserDeletes : DeleteCall(1, f)
    \/ \E i \in DOMAIN reqs : DeleteExec(i)

SpecUI == InitUI /\ [][NextUI]_vars

----------------------------------------------------------------------------
(* The browser: AssetCard with rename *)

MaxRenames == 2     \* calls of onRename from one card

\* asset.size: <<>> for undefined, <<n>> for the number n
Sizes == { <<>>, <<0>>, <<1>>, <<1536>> }

\* what the user types into the rename input
EditNames == { <<>>, N_apng, N_bJPG, N_txt }

\* the label for undefined sizes
UnknownSize == [num |-> -1, unit |-> "unknown"]

\* a label, the number in hundredths: '1.5 KB' is [num |-> 150, unit |-> "KB"]
SizeLabel(hundredths, unit) == [num |-> hundredths, unit |-> unit]

\* !bytes: undefined and 0 are falsy
Falsy(bytes) == bytes = <<>> \/ bytes[1] = 0

formatFileSize(bytes) ==
    IF Falsy(bytes) THEN UnknownSize
    ELSE IF bytes[1] = 0 THEN SizeLabel(0, "Bytes")
    ELSE LET n == bytes[1]
             k == 1024
             i == IF n < k THEN 0 ELSE IF n < k * k THEN 1
                  ELSE IF n < k * k * k THEN 2 ELSE 3
             unit == <<"Bytes", "KB", "MB", "GB">>[i + 1]
             pow == IF i = 0 THEN 1 ELSE IF i = 1 THEN k
                    ELSE IF i = 2 THEN k * k ELSE k * k * k
         IN  SizeLabel((n * 100 + pow \div 2) \div pow, unit)

\* the card as it is rendered: the size label is computed on every render
Render(c) == [c EXCEPT !.label = formatFileSize(c.asset.size)]

\* a card right after its first render
NewCard(asset) ==
    Render([present |-> TRUE, asset |-> asset,
            isEditing |-> FALSE, editName |-> asset.originalName,
            isRenaming |-> FALSE, label |-> UnknownSize])

\* what a step of the card leaves alone
outsideCard == <<dirExists, files, reqs, assets, fetched, browser, app, logvars>>

\* App renders the card of an asset for the first time
MountCard(asset) ==
    /\ ~card.present
    /\ card' = NewCard(asset)
    /\ UNCHANGED <<renames, outsideCard>>

\* the edit icon
ClickEdit ==
    /\ card.present /\ ~card.isEditing
    /\ card' = Render([card EXCEPT !.isEditing = TRUE])
    /\ UNCHANGED <<renames, outsideCard>>

\* onChange of the input
TypeName(n) ==
    /\ card.present /\ card.isEditing
    /\ card' = Render([card EXCEPT !.editName = n])
    /\ UNCHANGED <<renames, outsideCard>>

\* handleSaveRename up to its await
HandleSaveRename ==
    IF card.editName = <<>> \/ card.editName = card.asset.originalName
    THEN /\ card' = Render([card EXCEPT !.isEditing = FALSE,
                                         !.editName = card.asset.originalName])
         /\ UNCHANGED renames
    ELSE /\ Len(renames) < MaxRenames
         /\ card' = Render([card EXCEPT !.isRenaming = TRUE])
         /\ renames' = Append(renames, [oldName |-> card.asset.originalName,
                                        newName |-> card.editName,
                                        pc |-> "pending", success |-> FALSE])

\* the save button, disabled while isRenaming
ClickSave ==
    /\ card.present /\ card.isEditing /\ ~card.isRenaming
    /\ HandleSaveRename
    /\ UNCHANGED outsideCard

\* onKeyDown of the input, key Enter
PressEnter ==
    /\ card.present /\ card.isEditing
    /\ HandleSaveRename
    /\ UNCHANGED outsideCard

\* onKeyDown with key Escape, and the cancel button
CancelEdit ==
    /\ card.present /\ card.isEditing
    /\ card' = Render([card EXCEPT !.isEditing = FALSE,
                                    !.editName = card.asset.originalName])
    /\ UNCHANGED <<renames, outsideCard>>

\* handleSaveRename after its await: onRename resolved with success
OnRenameSettles(k, success) ==
    /\ renames[k].pc = "pending"
    /\ renames' = [renames EXCEPT ![k].pc = "done", ![k].success = success]
    /\ card' = Render([card EXCEPT !.isRenaming = FALSE,
                                    !.isEditing = IF success THEN FALSE
                                                  ELSE card.isEditing])
    /\ UNCHANGED outsideCard

InitCard ==
    /\ reqs = <<>>
    /\ dirExists = FALSE /\ files = OutsideFiles
    /\ assets = <<>>
    /\ fetched = NoneFetched
    /\ browser = TRUE
    /\ IdleApp
    /\ IdleCard

NextCard ==
    \/ \E size \in Sizes : MountCard([originalName |-> N_apng, size |-> size])
    \/ ClickEdit
    \/ \E n \in EditNames : TypeName(n)
    \/ ClickSave
    \/ PressEnter
    \/ CancelEdit
    \/ \E k \in DOMAIN renames : \E success \in BOOLEAN : OnRenameSettles(k, success)

SpecCard == InitCard /\ [][NextCard]_vars

----------------------------------------------------------------------------
(* The browser: App with upload and delete (App.tsx) *)

MaxPings == 1       \* runs of pingServer in one behaviour

\* prev.slice(-n)
SliceLast(prev, n) ==
    IF Len(prev) <= n THEN prev ELSE SubSeq(prev, Len(prev) - n + 1, Len(prev))

\* a SystemLog: the message is a text and a number
LogEntry(text, num, type) == [message |-> <<text, num>>, type |-> type]

\* an addLog that keeps the whole list
AddLogKeepAll(prev, newLog) == prev \o <<newLog>>

\* setLogs(prev => [...prev.slice(-49), newLog])
AddLog(prev, newLog) == SliceLast(prev, 49) \o <<newLog>>

\* a fetch() call to the API
ApiCall(kind, part, filename, uploading) ==
    [kind |-> kind, part |-> part, filename |-> filename, uploading |-> uploading]

\* fetchAssets up to its await; uploading: handleNewFileSelect awaits it
CallFetchAssets(uploading) == ApiCall("list", NoFile, <<>>, uploading)

\* may the browser make one more call in this behaviour
CanCall == Len(calls) < ReqBound

\* the user waits for the calls of App to end before the next click, and an
\* effect that is due runs right after the render, before any click
UserTurn == DOMAIN fetched = DOMAIN calls /\ ~effectDue

\* what a step of App leaves alone
outsideApp == <<dirExists, files, reqs, browser, logCalls, cardvars>>

\* the HostedAsset App.tsx makes of one element of the array
AppMappedAsset(f) ==
    [id          |-> f.name,
     name        |-> f.name,
     description |-> DescriptionPrefix \o <<SLASH>> \o f.name,
     url         |-> f.url]

AppMappedAssets(arr) == [k \in 1..Len(arr) |-> AppMappedAsset(arr[k])]

\* the initial-load effect: its cleanup when it ran before, then startServer
\* with its setStatus updater, fetchAssets and addLog
EffectRun(rerun) ==
    LET cleaned == IF rerun THEN intervals \ {keepAliveIntervalRef} ELSE intervals
        start == status # "RUNNING"
        id == keepAliveIntervalRef + 1
        logged == IF start THEN AddLog(logs, LogEntry("connected", 0, "info"))
                  ELSE logs
    IN  /\ status' = "RUNNING"
        /\ intervals' = IF start THEN (cleaned \ {keepAliveIntervalRef}) \cup {id}
                        ELSE cleaned
        /\ keepAliveIntervalRef' = IF start THEN id ELSE keepAliveIntervalRef
        /\ timeouts' = IF start THEN timeouts + 1 ELSE timeouts
        /\ calls' = Append(calls, CallFetchAssets(FALSE))
        /\ logs' = AddLog(logged, LogEntry("initialised", 0, "success"))
        /\ effectDue' = FALSE

\* the component is mounted: the effect runs for the first time
MountApp ==
    /\ browser /\ ~mounted /\ status = "STOPPED" /\ CanCall
    /\ mounted' = TRUE
    /\ EffectRun(FALSE)
    /\ UNCHANGED <<assets, fetched, isUploading, pings, outsideApp>>

\* a render after startServer changed identity: cleanup, then the effect
EffectRerun ==
    /\ mounted /\ effectDue /\ CanCall
    /\ EffectRun(TRUE)
    /\ UNCHANGED <<mounted, assets, fetched, isUploading, pings, outsideApp>>

\* pingServer run by the interval timer: both outcomes of its HEAD request
\* end in addLog
PingInterval(ok) ==
    /\ mounted /\ intervals # {} /\ pings < MaxPings
    /\ pings' = pings + 1
    /\ logs' = AddLog(logs, IF ok THEN LogEntry("heartbeat ok", 0, "success")
                            ELSE LogEntry("heartbeat sent", 0, "info"))
    /\ UNCHANGED <<mounted, status, intervals, keepAliveIntervalRef, timeouts,
                   effectDue, calls, isUploading, assets, fetched, outsideApp>>

\* pingServer run by setTimeout(pingServer, 1000)
PingTimeout(ok) ==
    /\ mounted /\ timeouts > 0 /\ pings < MaxPings
    /\ timeouts' = timeouts - 1
    /\ pings' = pings + 1
    /\ logs' = AddLog(logs, IF ok THEN LogEntry("heartbeat ok", 0, "success")
                            ELSE LogEntry("heartbeat sent", 0, "info"))
    /\ UNCHANGED <<mounted, status, intervals, keepAliveIntervalRef,
                   effectDue, calls, isUploading, assets, fetched, outsideApp>>

\* the fetch() call of request i was made by this App and has not ended
AppAwaiting(i, kind) ==
    /\ i \in DOMAIN calls /\ calls[i].kind = kind
    /\ i \notin DOMAIN fetched

\* the finally block of handleNewFileSelect runs after the fetchAssets it awaits
UploadingAfter(i) == IF calls[i].uploading THEN FALSE ELSE isUploading

\* fetchAssets of App.tsx after its await: no test of the content type, so
\* json() of an HTML page throws into the catch block
AppFetchThen(i) ==
    /\ AppAwaiting(i, "list")
    /\ i \in DOMAIN reqs
    /\ \E response \in Responses(i) :
          IF response.ok /\ ~response.html
          THEN /\ assets' = AppMappedAssets(response.json)
               /\ effectDue' = TRUE
               /\ fetched' = fetched @@ (i :> "ok")
          ELSE /\ fetched' = fetched @@ (i :> IF response.ok THEN "error" ELSE "notok")
               /\ UNCHANGED <<assets, effectDue>>
    /\ isUploading' = UploadingAfter(i)
    /\ UNCHANGED <<mounted, status, intervals, keepAliveIntervalRef, timeouts,
                   calls, pings, logs, outsideApp>>

\* fetchAssets of App.tsx when fetch() rejected
AppFetchCatch(i) ==
    /\ AppAwaiting(i, "list")
    /\ fetched' = fetched @@ (i :> "error")
    /\ isUploading' = UploadingAfter(i)
    /\ UNCHANGED <<mounted, status, intervals, keepAliveIntervalRef, timeouts,
                   effectDue, calls, pings, logs, assets, outsideApp>>

\* the refresh button
ReloadAllImages ==
    /\ mounted /\ UserTurn /\ CanCall
    /\ calls' = Append(calls, CallFetchAssets(FALSE))
    /\ logs' = AddLog(logs, LogEntry("refreshed", 0, "info"))
    /\ UNCHANGED <<mounted, status, intervals, keepAliveIntervalRef, timeouts,
                   effectDue, isUploading, pings, assets, fetched, outsideApp>>

\* handleNewFileSelect up to its await; the input is disabled while uploading
HandleNewFileSelect(part) ==
    /\ mounted /\ UserTurn /\ ~isUploading /\ CanCall
    /\ isUploading' = TRUE
    /\ logs' = AddLog(logs, LogEntry("uploading", 0, "info"))
    /\ calls' = Append(calls, ApiCall("upload", part, <<>>, FALSE))
    /\ UNCHANGED <<mounted, status, intervals, keepAliveIntervalRef, timeouts,
                   effectDue, pings, assets, fetched, outsideApp>>

\* handleNewFileSelect after its await, when fetch() resolved
UploadThen(i) ==
    /\ AppAwaiting(i, "upload")
    /\ i \in DOMAIN reqs /\ reqs[i].pc = "done"
    /\ IF reqs[i].status = 200
       THEN /\ CanCall
            /\ logs' = AddLog(logs, LogEntry("upload done", 0, "success"))
            /\ calls' = Append(calls, CallFetchAssets(TRUE))
            /\ fetched' = fetched @@ (i :> "ok")
            /\ UNCHANGED isUploading
       ELSE /\ logs' = AddLog(logs, LogEntry("upload failed", 0, "error"))
            /\ fetched' = fetched @@ (i :> "notok")
            /\ isUploading' = FALSE
            /\ UNCHANGED calls
    /\ UNCHANGED <<mounted, status, intervals, keepAliveIntervalRef, timeouts,
                   effectDue, pings, assets, outsideApp>>

\* handleNewFileSelect when fetch() rejected
UploadCatch(i) ==
    /\ AppAwaiting(i, "upload")
    /\ logs' = AddLog(logs, LogEntry("upload error", 0, "error"))
    /\ fetched' = fetched @@ (i :> "error")
    /\ isUploading' = FALSE
    /\ UNCHANGED <<mounted, status, intervals, keepAliveIntervalRef, timeouts,
                   effectDue, calls, pings, assets, outsideApp>>

\* handleDeleteAsset up to its await
HandleDeleteAsset(filename) ==
    /\ mounted /\ UserTurn /\ CanCall
    /\ calls' = Append(calls, ApiCall("delete", NoFile, filename, FALSE))
    /\ UNCHANGED <<mounted, status, intervals, keepAliveIntervalRef, timeouts,
                   effectDue, isUploading, pings, logs, assets, fetched, outsideApp>>

\* DeleteThen that does not refresh the list
DeleteThenNoFetch(i) ==
    /\ AppAwaiting(i, "delete")
    /\ i \in DOMAIN reqs /\ reqs[i].pc = "done"
    /\ IF reqs[i].status = 200
       THEN /\ logs' = AddLog(logs, LogEntry("deleted", 0, "warning"))
            /\ fetched' = fetched @@ (i :> "ok")
       ELSE /\ logs' = AddLog(logs, LogEntry("delete failed", 0, "error"))
            /\ fetched' = fetched @@ (i :> "notok")
    /\ UNCHANGED <<mounted, status, intervals, keepAliveIntervalRef, timeouts,
                   effectDue, calls, isUploading, pings, assets, outsideApp>>

\* handleDeleteAsset after its await, when fetch() resolved
DeleteThen(i) ==
    /\ AppAwaiting(i, "delete")
    /\ i \in DOMAIN reqs /\ reqs[i].pc = "done"
    /\ IF reqs[i].status = 200
       THEN /\ CanCall
            /\ logs' = AddLog(logs, LogEntry("deleted", 0, "warning"))
            /\ calls' = Append(calls, CallFetchAssets(FALSE))
            /\ fetched' = fetched @@ (i :> "ok")
       ELSE /\ logs' = AddLog(logs, LogEntry("delete failed", 0, "error"))
            /\ fetched' = fetched @@ (i :> "notok")
            /\ UNCHANGED calls
    /\ UNCHANGED <<mounted, status, intervals, keepAliveIntervalRef, timeouts,
                   effectDue, isUploading, pings, assets, outsideApp>>

\* handleDeleteAsset when fetch() rejected
DeleteCatch(i) ==
    /\ AppAwaiting(i, "delete")
    /\ logs' = AddLog(logs, LogEntry("delete error", 0, "error"))
    /\ fetched' = fetched @@ (i :> "error")
    /\ UNCHANGED <<mounted, status, intervals, keepAliveIntervalRef, timeouts,
                   effectDue, calls, isUploading, pings, assets, outsideApp>>

\* the calls reach the server in the order they were made
NextCall == Len(reqs) + 1

Arrives(kind) == NextCall \in DOMAIN calls /\ calls[NextCall].kind = kind

ListArrives == Arrives("list") /\ ListCall(1)

UploadArrives == Arrives("upload") /\ UploadCall(1, calls[NextCall].part)

DeleteArrives == Arrives("delete") /\ DeleteCall(1, calls[NextCall].filename)

\* the stores App is started against
InitStoresApp ==
    { [n \in {N_apng, N_bJPG} |-> IF n = N_apng THEN <<1>> ELSE <<2, 2>>] }

InitApp ==
    /\ reqs = <<>>
    /\ fetched = NoneFetched
    /\ assets = <<>>
    /\ browser = TRUE
    /\ IdleApp
    /\ IdleCard
    /\ dirExists = TRUE
    /\ \E st \in InitStoresApp : files = StoreOf(st)

\* the steps App and the server take without the user and without a failure
\* of the network
AppProgress ==
    \/ MountApp
    \/ EffectRerun
    \/ ListArrives
    \/ UploadArrives
    \/ DeleteArrives
    \/ \E i \in DOMAIN reqs : ReaddirExec(i)
    \/ \E i \in DOMAIN reqs : ListCallback(i)
    \/ \E i \in DOMAIN reqs : UploadFinish(i)
    \/ \E i \in DOMAIN reqs : DeleteExec(i)
    \/ \E i \in DOMAIN calls : AppFetchThen(i)
    \/ \E i \in DOMAIN calls : UploadThen(i)
    \/ \E i \in DOMAIN calls : DeleteThen(i)

NextApp ==
    \/ MountApp
    \/ EffectRerun
    \/ \E ok \in BOOLEAN : PingInterval(ok)
    \/ \E ok \in BOOLEAN : PingTimeout(ok)
    \/ ReloadAllImages
    \/ \E part \in UserUploads : HandleNewFileSelect(part)
    \/ \E f \in UserDeletes : HandleDeleteAsset(f)
    \/ ListArrives
    \/ UploadArrives
    \/ DeleteArrives
    \/ \E i \in DOMAIN reqs : ReaddirExec(i)
    \/ \E i \in DOMAIN reqs : ListCallback(i)
    \/ \E i \in DOMAIN reqs : UploadFinish(i)
    \/ \E i \in DOMAIN reqs : DeleteExec(i)
    \/ \E i \in DOMAIN calls : AppFetchThen(i)
    \/ \E i \in DOMAIN calls : AppFetchCatch(i)
    \/ \E i \in DOMAIN calls : UploadThen(i)
    \/ \E i \in DOMAIN calls : UploadCatch(i)
    \/ \E i \in DOMAIN calls : DeleteThen(i)
    \/ \E i \in DOMAIN calls : DeleteCatch(i)

\* React runs effects and promise callbacks, and the server its handlers,
\* whenever they are ready
SpecApp == InitApp /\ [][NextApp]_vars /\ WF_vars(AppProgress)

----------------------------------------------------------------------------
(* addLog of App.tsx on its own, on log lists of every length near the cap *)

MaxAddLogs == 3     \* calls of addLog in one behaviour

\* the lengths of the log list addLog is called on
LogLengths == {0, 1, 48, 49, 50}

\* the types of a SystemLog
LogTypes == {"info", "success", "warning", "error"}

\* a log list of n entries that earlier calls of addLog left
EarlierLogs(n) == [k \in 1..n |-> LogEntry("earlier", k, "info")]

\* addLog(message, type): the message is numbered by the call
AddLogCall(type) ==
    /\ logCalls < MaxAddLogs
    /\ logCalls' = logCalls + 1
    /\ logs' = AddLog(logs, LogEntry("added", logCalls + 1, type))
    /\ UNCHANGED <<dirExists, files, reqs, assets, fetched, browser, app, cardvars>>

InitLog ==
    /\ reqs = <<>>
    /\ dirExists = FALSE /\ files = OutsideFiles
    /\ assets = <<>>
    /\ fetched = NoneFetched
    /\ browser = TRUE
    /\ mounted = TRUE
    /\ status = "RUNNING"
    /\ intervals = {1}
    /\ keepAliveIntervalRef = 1
    /\ timeouts = 0
    /\ effectDue = FALSE
    /\ calls = <<>>
    /\ isUploading = FALSE
    /\ pings = 0
    /\ logCalls = 0
    /\ \E n \in LogLengths : logs = EarlierLogs(n)
    /\ IdleCard

NextLog == \E type \in LogTypes : AddLogCall(type)

SpecLog == InitLog /\ [][NextLog]_vars

TypeOK ==
    /\ dirExists \in BOOLEAN
    /\ Len(reqs) <= ReqBound
    /\ \A i \in DOMAIN reqs : reqs[i].status \in {0, 200, 400, 404, 409, 500}

----------------------------------------------------------------------------
(* Vocabulary of the properties *)

\* the names stored in the asset directory
StoredNames(fs) == ReaddirNames(fs)

\* what a list call answers when it runs alone on fs and readdir succeeds
ListingOf(fs) == FileInfos(fs, ReaddirNames(fs))

\* the traversal rule, position by position
HasTraversalToken(s) ==
    \E i \in 1..Len(s) :
        \/ s[i] = SLASH
        \/ s[i] = BACKSLASH
        \/ (s[i] = DOT /\ i < Len(s) /\ s[i + 1] = DOT)

AllowedExts == { <<"p","n","g">>, <<"j","p","g">>, <<"j","p","e","g">>,
                 <<"g","i","f">>, <<"w","e","b","p">> }

\* the extension of a name: what follows its last dot
HasAllowedExt(s) ==
    LET dots == { i \in 1..Len(s) : s[i] = DOT }
    IN  /\ dots # {}
        /\ LET last == CHOOSE i \in dots : \A j \in dots : j <= i
           IN  ToLower(SubSeq(s, last + 1, Len(s))) \in AllowedExts

\* request i is answered in this step
Answered(i) ==
    /\ i \in DOMAIN reqs'
    /\ reqs'[i].pc = "done"
    /\ (i \in DOMAIN reqs => reqs[i].pc # "done")

\* requests i and j were in flight at the same time
Overlap(i, j) == i \in reqs[j].conc \/ j \in reqs[i].conc

----------------------------------------------------------------------------
(* C1 .. C4: rename and the traversal rule *)

\* C1: a rename answered 400, 404 or 409 leaves the store exactly as it was:
\* the same files with the same contents, for every pair (oldName, newName).
C1_FailedRenameLeavesStore ==
    [][\A i \in DOMAIN reqs' :
          (Answered(i) /\ reqs'[i].kind = "rename"
                       /\ reqs'[i].status \in {400, 404, 409})
          => (files' = files /\ dirExists' = dirExists)]_vars

\* a rename of a stored name onto another stored name was answered 409
C1_Witness ==
    \E i \in DOMAIN reqs :
        /\ reqs[i].kind = "rename" /\ reqs[i].status = 409
        /\ reqs[i].a \in StoredNames(files)
        /\ reqs[i].b \in StoredNames(files)
        /\ reqs[i].a # reqs[i].b

Listed(fs, n) == \E e \in ListingOf(fs) : e.name = n

ListedWithSize(fs, n, size) ==
    \E e \in ListingOf(fs) : e.name = n /\ e.size = size

RenameSucceeds(i) ==
    Answered(i) /\ reqs'[i].kind = "rename" /\ reqs'[i].status = 200

\* C2 as stated: after a successful rename(A -> B) of a listed A, the next
\* list holds B with the size A had, and does not hold A.
C2_RenamedIsListed ==
    [][\A i \in DOMAIN reqs :
          (RenameSucceeds(i) /\ Listed(files, reqs[i].a))
          => /\ ListedWithSize(files', reqs[i].b,
                               Len(files[PathJoin(publicDir, reqs[i].a)]))
             /\ ~Listed(files', reqs[i].a)]_vars

\* C2, amended: after a successful rename(A -> B) of a listed A, the next
\* list does not hold A; it holds B with the size A had when B has an image
\* extension, and when B has none B is stored with A's content but not
\* listed.
C2_RenamedIsListedIfImage ==
    [][\A i \in DOMAIN reqs :
          (RenameSucceeds(i) /\ Listed(files, reqs[i].a))
          => LET A == reqs[i].a
                 B == reqs[i].b
                 content == files[PathJoin(publicDir, A)]
             IN  /\ ~Listed(files', A)
                 /\ A \notin StoredNames(files')
                 /\ B \in StoredNames(files')
                 /\ files'[PathJoin(publicDir, B)] = content
                 /\ IF HasAllowedExt(B)
                    THEN ListedWithSize(files', B, Len(content))
                    ELSE ~Listed(files', B)]_vars

\* a listed image was renamed to another image name and the rename succeeded
C2_Witness ==
    \E i \in DOMAIN reqs :
        /\ reqs[i].kind = "rename" /\ reqs[i].status = 200
        /\ HasAllowedExt(reqs[i].a) /\ HasAllowedExt(reqs[i].b)
        /\ ~HasTraversalToken(reqs[i].a)
        /\ Listed(files, reqs[i].b)
        /\ ~Listed(files, reqs[i].a)

\* C3: no name stored in the asset directory holds "..", "/" or "\".
C3_StoredNamesValid ==
    \A n \in StoredNames(files) : ~HasTraversalToken(n)

\* C4: a rename whose newName holds "..", "/" or "\" is answered 400 by the
\* handler itself; it never reaches fs.rename.
C4_InvalidNewNameRejected ==
    \A i \in DOMAIN reqs :
        (reqs[i].kind = "rename" /\ HasTraversalToken(reqs[i].b))
        => (reqs[i].pc = "done" /\ reqs[i].status = 400)

\* a rename of a stored name to a name with a backslash was answered 400
C4_Witness ==
    \E i \in DOMAIN reqs :
        /\ reqs[i].kind = "rename"
        /\ reqs[i].b = N_bslash
        /\ reqs[i].a \in StoredNames(files)
        /\ reqs[i].status = 400

----------------------------------------------------------------------------
(* C5 .. C10: upload, delete, list, rename answers *)

IsValidImageName(n) == n # <<>> /\ ~HasTraversalToken(n) /\ HasAllowedExt(n)

IsAsciiName(n) == \A k \in 1..Len(n) : IsAsciiByte(n[k])

\* C5: when requests run one after the other, the list call that follows a
\* successful upload of a valid image name N with a payload of length L has
\* an entry with name N and size L.
C5_UploadedIsListed ==
    \A i \in DOMAIN reqs :
        ( /\ i + 1 \in DOMAIN reqs
          /\ reqs[i].kind = "upload" /\ reqs[i].status = 200
          /\ IsValidImageName(reqs[i].a)
          /\ reqs[i + 1].kind = "list" /\ reqs[i + 1].status = 200 )
        => /\ IsAsciiName(reqs[i].a) => reqs[i].name = reqs[i].a
           /\ \E e \in reqs[i + 1].list :
                 e.name = reqs[i].name /\ e.size = Len(reqs[i].payload)

\* a one-byte upload over a stored two-byte image, then a list that shows it
C5_Witness ==
    /\ Len(reqs) = 2
    /\ reqs[1].kind = "upload" /\ reqs[1].status = 200
    /\ reqs[1].a = N_apng /\ reqs[1].payload = <<3>>
    /\ reqs[2].kind = "list" /\ reqs[2].status = 200
    /\ N_txt \in reqs[2].snap
    /\ \E e \in reqs[2].list : e.name = N_apng /\ e.size = 1

\* C6: when requests run one after the other, a delete of a stored name is
\* answered 200, a delete that follows a delete of the same name is answered
\* 404, and after either answer the name is neither stored nor listed.
C6_DeleteTwice ==
    [][\A i \in DOMAIN reqs' :
          (Answered(i) /\ reqs'[i].kind = "delete")
          => LET N == reqs'[i].a
             IN  /\ N \in StoredNames(files) => reqs'[i].status = 200
                 /\ (i > 1 /\ reqs'[i - 1].kind = "delete" /\ reqs'[i - 1].a = N)
                       => reqs'[i].status = 404
                 /\ reqs'[i].status \in {200, 404}
                 /\ N \notin StoredNames(files')
                 /\ ~Listed(files', N)]_vars

\* a stored image was deleted twice: 200, then 404
C6_Witness ==
    /\ Len(reqs) = 2
    /\ reqs[1].kind = "delete" /\ reqs[1].a = N_apng /\ reqs[1].status = 200
    /\ reqs[2].kind = "delete" /\ reqs[2].a = N_apng /\ reqs[2].status = 404
    /\ N_bJPG \in StoredNames(files)

\* C7: every entry a list call returns has an extension in
\* {png, jpg, jpeg, gif, webp}, whatever else the directory holds.
C7_ListOnlyImages ==
    \A i \in DOMAIN reqs :
        reqs[i].kind = "list" => \A e \in reqs[i].list : HasAllowedExt(e.name)

\* a list was answered from a directory that held an image and another file
C7_Witness ==
    \E i \in DOMAIN reqs :
        /\ reqs[i].kind = "list" /\ reqs[i].status = 200
        /\ \E n \in reqs[i].snap : ~HasAllowedExt(n)
        /\ reqs[i].list # {}

\* C8: when requests run one after the other, rename answers 400 when a
\* name is missing, 404 when oldName is not stored, 409 when newName is
\* stored, and 200 only when oldName is stored and newName is valid and not
\* stored.
C8_RenameAnswers ==
    [][\A i \in DOMAIN reqs' :
          (Answered(i) /\ reqs'[i].kind = "rename")
          => LET old == reqs'[i].a
                 new == reqs'[i].b
                 code == reqs'[i].status
                 given == old # <<>> /\ new # <<>> /\ ~HasTraversalToken(new)
             IN  /\ (old = <<>> \/ new = <<>>) => code = 400
                 /\ (given /\ old \notin StoredNames(files)) => code = 404
                 /\ (given /\ old \in StoredNames(files)
                           /\ new \in StoredNames(files)) => code = 409
                 /\ code = 200 => ( /\ old \in StoredNames(files)
                                    /\ ~HasTraversalToken(new)
                                    /\ new \notin StoredNames(files) )]_vars

\* C9: a rename(A -> B) and a delete(A) that were in flight together each
\* end with 200, 404 or 409, and when they are the only requests A is not
\* stored once both are answered.
C9_RenameDeleteRace ==
    \A r \in DOMAIN reqs : \A d \in DOMAIN reqs :
        ( /\ reqs[r].kind = "rename" /\ reqs[d].kind = "delete"
          /\ reqs[r].a = reqs[d].a
          /\ IsValidImageName(reqs[r].a) /\ IsValidImageName(reqs[r].b)
          /\ Overlap(r, d)
          /\ reqs[r].pc = "done" /\ reqs[d].pc = "done" )
        => /\ reqs[r].status \in {200, 404, 409}
           /\ reqs[d].status \in {200, 404}
           /\ Len(reqs) = 2 => reqs[r].a \notin StoredNames(files)

\* C10 as stated: a list answers 200 with an empty array only when the
\* store directory is absent, and answers 500 when readdir fails.
C10_EmptyOnlyIfAbsent ==
    [][\A i \in DOMAIN reqs' :
          (Answered(i) /\ reqs'[i].kind = "list")
          => /\ (reqs'[i].status = 200 /\ reqs'[i].list = {}) => ~dirExists
             /\ (i \in DOMAIN reqs /\ reqs[i].err) => reqs'[i].status = 500]_vars

\* C10, amended: a list answers 200 with an empty array only when the store
\* directory is absent or readdir succeeded and found no image file; it
\* answers 500, with no list, when the directory exists and readdir fails.
C10_EmptyOnlyIfAbsentOrNoImage ==
    [][\A i \in DOMAIN reqs' :
          (Answered(i) /\ reqs'[i].kind = "list")
          => /\ i \notin DOMAIN reqs
                   => (~dirExists /\ reqs'[i].status = 200 /\ reqs'[i].list = {})
             /\ (i \in DOMAIN reqs /\ reqs[i].err)
                   => (dirExists /\ reqs'[i].status = 500 /\ reqs'[i].list = {})
             /\ (reqs'[i].status = 200 /\ reqs'[i].list = {})
                   => \/ ~dirExists
                      \/ /\ i \in DOMAIN reqs /\ ~reqs[i].err
                         /\ \A n \in reqs[i].snap : ~HasAllowedExt(n)]_vars

\* readdir failed on an existing directory that holds an image, answer 500
C10_Witness ==
    \E i \in DOMAIN reqs :
        /\ reqs[i].kind = "list" /\ reqs[i].err /\ reqs[i].status = 500
        /\ dirExists
        /\ ListingOf(files) # {}

----------------------------------------------------------------------------
(* C11 .. C18: upload limit, stat failure, overwrite, delete frame, urls,
   filename decoding, health *)

\* C11: an upload whose payload is over limits.fileSize is answered 400 and
\* leaves no file under its name.
C11_OverLimitIs400 ==
    [][\A i \in DOMAIN reqs' :
          (Answered(i) /\ reqs'[i].kind = "upload"
                       /\ Len(reqs'[i].payload) > fileSize)
          => /\ reqs'[i].status = 400
             /\ reqs'[i].name \notin StoredNames(files')]_vars

\* the path of a plain name in the store
StorePath(n) == publicDir \o <<n>>

\* C12: a list whose readdir succeeded is answered 200 with one entry for
\* every image name readdir returned: size 0 for a file that can no longer
\* be stat'ed, the real size for every other one.
C12_StatFailureIsSizeZero ==
    [][\A i \in DOMAIN reqs :
          (Answered(i) /\ reqs[i].kind = "list" /\ ~reqs[i].err)
          => LET images == { n \in reqs[i].snap : HasAllowedExt(n) }
             IN  /\ reqs'[i].status = 200
                 /\ Cardinality(reqs'[i].list) = Cardinality(images)
                 /\ \A n \in images :
                       \E e \in reqs'[i].list :
                          /\ e.name = n
                          /\ e.size = IF StorePath(n) \in DOMAIN files
                                      THEN Len(files[StorePath(n)])
                                      ELSE 0]_vars

\* a list was answered with size 0 for a file deleted after readdir, and
\* with the real size for another file
C12_Witness ==
    \E i \in DOMAIN reqs :
        /\ reqs[i].kind = "list" /\ reqs[i].status = 200
        /\ \E e \in reqs[i].list : e.size = 0 /\ e.name \notin StoredNames(files)
        /\ \E e \in reqs[i].list : e.size > 0 /\ e.name \in StoredNames(files)

\* no request was in flight together with request i (in the next state)
AloneNext(i) ==
    /\ reqs'[i].conc = {}
    /\ \A j \in DOMAIN reqs' : i \notin reqs'[j].conc

\* C13: the names of a list answer are pairwise distinct, and after an
\* upload of an image name that ran alone, a list holds exactly one entry
\* for that name, whose size is that of the uploaded payload.
C13_DistinctNamesOverwrite ==
    [][\A i \in DOMAIN reqs' :
          Answered(i)
          => /\ reqs'[i].kind = "list"
                   => \A e1 \in reqs'[i].list : \A e2 \in reqs'[i].list :
                         e1.name = e2.name => e1 = e2
             /\ ( /\ reqs'[i].kind = "upload" /\ reqs'[i].status = 200
                  /\ AloneNext(i)
                  /\ HasAllowedExt(reqs'[i].name) )
                   => /\ Cardinality({ e \in ListingOf(files') :
                                          e.name = reqs'[i].name }) = 1
                      /\ ListedWithSize(files', reqs'[i].name,
                                        Len(reqs'[i].payload))]_vars

\* a one-byte upload of a.png replaced the stored two-byte a.png
C13_Witness ==
    /\ Len(reqs) = 1
    /\ reqs[1].kind = "upload" /\ reqs[1].status = 200
    /\ reqs[1].name = N_apng /\ reqs[1].payload = <<3>>
    /\ N_txt \in StoredNames(files)
    /\ files[StorePath(N_apng)] = <<3>>

C15_LastWriterWins ==
    \A i \in DOMAIN reqs : \A j \in DOMAIN reqs :
        ( /\ i < j /\ Len(reqs) = 2
          /\ reqs[i].kind = "upload" /\ reqs[j].kind = "upload"
          /\ reqs[i].status = 200 /\ reqs[j].status = 200
          /\ reqs[i].name = reqs[j].name
          /\ reqs[i].payload # reqs[j].payload
          /\ Overlap(i, j) )
        => /\ StorePath(reqs[i].name) \in DOMAIN files
           /\ files[StorePath(reqs[i].name)] \in {reqs[i].payload, reqs[j].payload}

\* C16: every url of an answer is "/" followed by the name on disk of the
\* file it describes: the listed name, the name the upload stored its file
\* under, the newName of the rename.
C16_UrlIsSlashName ==
    [][\A i \in DOMAIN reqs' :
          /\ (Answered(i) /\ reqs'[i].kind = "list")
                => \A e \in reqs'[i].list :
                      /\ e.url = <<SLASH>> \o e.name
                      /\ i \in DOMAIN reqs => e.name \in reqs[i].snap
          /\ (i \notin DOMAIN reqs /\ reqs'[i].kind = "upload"
                                   /\ reqs'[i].pc = "write")
                => /\ reqs'[i].fd = StorePath(reqs'[i].name)
                   /\ reqs'[i].fd \in DOMAIN files'
          /\ (Answered(i) /\ reqs'[i].kind = "upload" /\ reqs'[i].status = 200)
                => /\ reqs'[i].name = reqs[i].name
                   /\ reqs'[i].url = <<SLASH>> \o reqs'[i].name
          /\ (Answered(i) /\ reqs'[i].kind = "rename" /\ reqs'[i].status = 200)
                => /\ reqs'[i].url = <<SLASH>> \o reqs'[i].b
                   /\ StorePath(reqs'[i].b) \in DOMAIN files']_vars

\* an upload was answered with its url and a list with a non-empty array
C16_Witness ==
    /\ \E i \in DOMAIN reqs :
          /\ reqs[i].kind = "upload" /\ reqs[i].status = 200
          /\ reqs[i].url = <<SLASH>> \o N_apng
    /\ \E i \in DOMAIN reqs :
          reqs[i].kind = "list" /\ reqs[i].status = 200 /\ reqs[i].list # {}

\* the bytes of the name are no valid UTF-8
UndecodableName(s) ==
    \E k \in 1..Len(s) :
        \/ s[k] = "xE9"
        \/ s[k] = "xC3" /\ (k = Len(s) \/ s[k + 1] # "xA9")
        \/ s[k] = "xA9" /\ (k = 1 \/ s[k - 1] # "xC3")

\* C17: an upload whose supplied filename cannot be reinterpreted as UTF-8
\* is answered 200 and its file is stored under the supplied name.
C17_RawNameFallback ==
    \A i \in DOMAIN reqs :
        ( /\ reqs[i].kind = "upload" /\ reqs[i].pc = "done"
          /\ UndecodableName(reqs[i].a) /\ ~HasTraversalToken(reqs[i].a)
          /\ Len(reqs[i].payload) <= fileSize )
        => (reqs[i].status = 200 /\ reqs[i].name = reqs[i].a)

\* C18: a health request is answered 200 with status "ok" in every state,
\* and changes neither the store nor any other request.
C18_HealthStateless ==
    [][\A i \in DOMAIN reqs' :
          (Answered(i) /\ reqs'[i].kind = "health")
          => /\ reqs'[i].status = 200 /\ reqs'[i].body = "ok"
             /\ files' = files /\ dirExists' = dirExists
             /\ \A j \in DOMAIN reqs : reqs'[j] = reqs[j]]_vars

\* health answered "ok" after a delete changed the store, and with no store
C18_Witness ==
    \E i \in DOMAIN reqs : \E j \in DOMAIN reqs :
        /\ reqs[i].kind = "delete" /\ reqs[i].status = 200
        /\ reqs[j].kind = "health" /\ reqs[j].body = "ok" /\ i < j

----------------------------------------------------------------------------
(* C19, C20: the asset list of the browser *)

\* the fetchAssets call of request i ends in this step
FetchEnds(i) == i \notin DOMAIN fetched /\ i \in DOMAIN fetched'

\* C19: for every file of a listing the browser stores, the name shown is
\* the entry of the mapping table under the filename when the table has
\* one and the filename otherwise, and originalName and id are the filename.
C19_DisplayNameFromTable ==
    [][\A i \in DOMAIN reqs :
          (FetchEnds(i) /\ fetched'[i] = "ok")
          => LET arr == ArrayOf(reqs[i].list)
             IN  /\ Len(assets') = Len(arr)
                 /\ \A k \in 1..Len(arr) :
                       LET n == arr[k].name
                       IN  /\ assets'[k].name =
                                 IF n \in DOMAIN FILENAME_MAPPING
                                 THEN FILENAME_MAPPING[n] ELSE n
                           /\ assets'[k].originalName = n
                           /\ assets'[k].id = n]_vars

\* a fetched listing shows avatar.png under its table entry and another
\* file under its filename
C19_Witness ==
    \E i \in DOMAIN fetched :
        /\ fetched[i] = "ok"
        /\ \E e \in reqs[i].list : e.name = N_avatar
        /\ \E k \in DOMAIN assets :
              /\ assets[k].originalName = N_avatar
              /\ assets[k].id = N_avatar
              /\ assets[k].name = <<"U+7528", "U+6237", "U+5934", "U+50CF">>
        /\ \E k \in DOMAIN assets :
              assets[k].originalName = N_apng /\ assets[k].name = N_apng

\* C20: a fetch that ends with a 200 JSON answer of the server leaves the
\* browser with exactly the files of that answer, in the order of the
\* answer, whatever it held before; a fetch that ends with a non-OK
\* status, an HTML page or a network error leaves the asset list as it was.
C20_AssetsMirrorListing ==
    [][\A i \in DOMAIN reqs :
          FetchEnds(i)
          => IF fetched'[i] = "ok"
             THEN /\ reqs[i].pc = "done" /\ reqs[i].status = 200
                  /\ LET arr == ArrayOf(reqs[i].list)
                     IN  /\ Len(assets') = Len(arr)
                         /\ \A k \in 1..Len(arr) :
                               /\ assets'[k].originalName = arr[k].name
                               /\ assets'[k].url = arr[k].url
                               /\ assets'[k].size = arr[k].size
             ELSE /\ fetched'[i] \in {"notok", "html", "error"}
                  /\ fetched'[i] = "notok" => reqs[i].status # 200
                  /\ assets' = assets]_vars

\* the first fetch replaced the list by a two-file listing, the second
\* fetch failed and the list is still that listing
C20_Witness ==
    /\ DOMAIN fetched = {1, 2}
    /\ fetched[1] = "ok" /\ fetched[2] # "ok"
    /\ Len(assets) = 2
    /\ assets = MappedAssets(ArrayOf(reqs[1].list))

----------------------------------------------------------------------------
(* C22 .. C24: rename races, paths outside the store, order of the checks *)

\* the contents stored in the asset directory
StoredContents(fs) == { fs[q] : q \in { x \in DOMAIN fs : InStore(x) } }

\* C22: of two renames a.png -> a.png.txt and b.JPG -> a.png.txt that were
\* in flight together on a store holding a.png and b.JPG and no a.png.txt,
\* at most one is answered 200, and after both the store still holds the
\* content of a.png and the content of b.JPG.
C22_RenameRenameRace ==
    \A i \in DOMAIN reqs : \A j \in DOMAIN reqs :
        ( /\ i < j /\ Len(reqs) = 2
          /\ reqs[i].kind = "rename" /\ reqs[j].kind = "rename"
          /\ {reqs[i].a, reqs[j].a} = {N_apng, N_bJPG}
          /\ reqs[i].b = N_txt /\ reqs[j].b = N_txt
          /\ reqs[i].pc = "done" /\ reqs[j].pc = "done"
          /\ reqs[i].status # 404 /\ reqs[j].status # 404
          /\ Overlap(i, j) )
        => /\ ~(reqs[i].status = 200 /\ reqs[j].status = 200)
           /\ {<<1>>, <<2, 2>>} \subseteq StoredContents(files)

\* C23: no step moves, removes, creates or changes a file outside the
\* asset directory, whatever oldName or delete filename a client supplies.
C23_OutsideUntouched ==
    [][/\ \A q \in DOMAIN files :
             ~InStore(q) => (q \in DOMAIN files' /\ files'[q] = files[q])
       /\ \A q \in DOMAIN files' : ~InStore(q) => q \in DOMAIN files]_vars

\* C24: rename answers with the first check that fails, in the order
\* missing name (400), invalid newName (400), oldName absent (404), newName
\* present (409), and goes on to fs.rename when none fails.
C24_RenameCheckOrder ==
    [][\A i \in DOMAIN reqs' :
          (i \notin DOMAIN reqs /\ reqs'[i].kind = "rename")
          => LET o == reqs'[i].a
                 n == reqs'[i].b
                 missing == o = <<>> \/ n = <<>>
                 invalid == HasTraversalToken(n)
                 oldAbsent == ~existsSync(PathJoin(publicDir, o))
                 newPresent == existsSync(PathJoin(publicDir, n))
             IN  IF missing \/ invalid
                 THEN reqs'[i].pc = "done" /\ reqs'[i].status = 400
                 ELSE IF oldAbsent
                 THEN reqs'[i].pc = "done" /\ reqs'[i].status = 404
                 ELSE IF newPresent
                 THEN reqs'[i].pc = "done" /\ reqs'[i].status = 409
                 ELSE reqs'[i].pc = "rename"]_vars

\* an invalid newName with an absent oldName was answered 400, and a rename
\* of the stored a.png to itself was answered 409
C24_Witness ==
    /\ N_bJPG \notin StoredNames(files)
    /\ N_apng \in StoredNames(files)
    /\ \E i \in DOMAIN reqs :
          /\ reqs[i].kind = "rename" /\ reqs[i].a = N_bJPG
          /\ reqs[i].b = N_slash /\ reqs[i].status = 400
    /\ \E i \in DOMAIN reqs :
          /\ reqs[i].kind = "rename" /\ reqs[i].a = N_apng
          /\ reqs[i].b = N_apng /\ reqs[i].status = 409

----------------------------------------------------------------------------
(* C25: two list fetches of the browser *)

\* the list requests of the browser
ListFetches == { i \in DOMAIN reqs : reqs[i].kind = "list" }

\* C25: once every list fetch has ended, and at least two of them with a
\* 200 JSON answer, the asset list of the browser is the listing answered
\* to the fetch that was issued last.
C25_LatestFetchWins ==
    ( /\ Cardinality(ListFetches) >= 2
      /\ \A i \in ListFetches : i \in DOMAIN fetched /\ fetched[i] = "ok" )
    => LET last == CHOOSE i \in ListFetches : \A j \in ListFetches : j <= i
       IN  assets = MappedAssets(ArrayOf(reqs[last].list))

----------------------------------------------------------------------------
(* C28, C29: the asset card *)

\* C28: at most one call of onRename of a card is pending at any time, and
\* no call of onRename has an empty newName or a newName equal to the
\* originalName of the asset.
C28_OneRenameInFlight ==
    /\ Cardinality({ k \in DOMAIN renames : renames[k].pc = "pending" }) <= 1
    /\ \A k \in DOMAIN renames :
          renames[k].newName # <<>> /\ renames[k].newName # renames[k].oldName

\* C29: the size label of an asset of size 0 is '0 Bytes', and the label
\* for an unknown size is shown only for an asset whose size is undefined.
C29_ZeroBytesLabel ==
    card.present
    => /\ card.asset.size = <<0>> => card.label = SizeLabel(0, "Bytes")
       /\ card.label = UnknownSize => card.asset.size = <<>>

----------------------------------------------------------------------------
(* C21, C26, C27: the list fetches and the keep-alive timer of App *)

\* the call App makes in this step, if it makes one
NewCall == calls'[Len(calls')]

\* this step issues one list fetch
IssuesListFetch == Len(calls') = Len(calls) + 1 /\ NewCall.kind = "list"

\* this step handles the 200 answer to call i, a call of the given kind
HandledOk(i, kind) ==
    /\ calls[i].kind = kind
    /\ i \notin DOMAIN fetched
    /\ i \in DOMAIN fetched' /\ fetched'[i] = "ok"

\* this step is a click on the refresh button
Refreshes == logs' = AddLog(logs, LogEntry("refreshed", 0, "info"))

\* this step is a run of pingServer, by the interval timer or the timeout
Pings == pings' = pings + 1

\* the statement of C21 as written: every run of the periodic timer, every
\* manual refresh, every successful upload and every successful delete
\* issues a list fetch.
C21_PeriodicAndOnAction ==
    [][/\ Pings => IssuesListFetch
       /\ Refreshes => IssuesListFetch
       /\ \A i \in DOMAIN calls :
             HandledOk(i, "upload") \/ HandledOk(i, "delete") => IssuesListFetch]_vars

\* C21: the frontend fetches the asset list when its initial-load effect runs
\* and on each user action: a manual refresh, a successful upload and a
\* successful delete each issue a list fetch. A run of the interval timer
\* only pings the server and issues no list fetch.
C21_FetchOnEffectAndAction ==
    [][/\ (mounted' /\ ~mounted) \/ (effectDue /\ ~effectDue') => IssuesListFetch
       /\ Refreshes => IssuesListFetch
       /\ \A i \in DOMAIN calls :
             HandledOk(i, "upload") \/ HandledOk(i, "delete") => IssuesListFetch
       /\ Pings => calls' = calls]_vars

\* the timer has pinged, a delete was answered 200, and the list fetch that
\* followed it removed the deleted a.png from the displayed list
C21_Witness ==
    /\ pings > 0
    /\ \E i \in DOMAIN calls :
          /\ calls[i].kind = "delete" /\ calls[i].filename = N_apng
          /\ i \in DOMAIN fetched /\ fetched[i] = "ok"
          /\ i + 1 \in DOMAIN calls /\ calls[i + 1].kind = "list"
          /\ i + 1 \in DOMAIN fetched /\ fetched[i + 1] = "ok"
    /\ { assets[k].id : k \in DOMAIN assets } = {N_bJPG}

\* C26: whenever the status of the mounted App is RUNNING, exactly one
\* keep-alive interval timer is registered.
C26_OneKeepAliveTimer ==
    mounted /\ status = "RUNNING" => Cardinality(intervals) = 1

\* the user has not clicked: no refresh, no upload and no delete
NoUserAction ==
    /\ \A i \in DOMAIN calls : calls[i].kind = "list" /\ ~calls[i].uploading
    /\ \A k \in DOMAIN logs : logs[k] # LogEntry("refreshed", 0, "info")

\* C27: with no user action the initial-load effect fetches the list once:
\* a fetch that stored the asset list does not make the effect fetch again.
C27_InitialFetchOnce ==
    NoUserAction => Len(calls) <= 1

----------------------------------------------------------------------------
(* C30: the log list *)

\* C30: after a call of addLog the log list holds at most 50 entries: the
\* added entry is its last one, the entries before it are the most recent
\* earlier entries in their order, and none is dropped while there is room.
C30_LastFiftyInOrder ==
    [][logCalls' = logCalls + 1
       => LET n == Len(logs')
              kept == n - 1
          IN  /\ n <= 50
              /\ n = IF Len(logs) < 50 THEN Len(logs) + 1 ELSE 50
              /\ logs'[n].message = <<"added", logCalls'>>
              /\ \A k \in 1..kept : logs'[k] = logs[Len(logs) - kept + k]]_vars

\* two calls on a full list: the two oldest entries are gone and the list
\* ends with the two added entries
C30_Witness ==
    /\ Len(logs) = 50
    /\ logs[1] = LogEntry("earlier", 3, "info")
    /\ logs[49].message = <<"added", 1>>
    /\ logs[50].message = <<"added", 2>>

====
